---- MODULE Spec2Model ----
(***************************************************************************)
(* Model of bot.py: the allowlist role bot.  Three entry points run as     *)
(* coroutines on one asyncio event loop: the realtime listener pipeline    *)
(* (on_handle -> auto_assign_role), the verify command and the sync        *)
(* command.  All of them call assign_role_to_member.  A step of the model  *)
(* is what one coroutine executes between two suspension points (await of  *)
(* a remote call); coroutines interleave only at those points.  on_ready   *)
(* subscribes the listener to the feed each time it runs.                  *)
(***************************************************************************)
EXTENDS Integers, Sequences, FiniteSets, Bags, TLC

\* Bounds of the model: how many coroutines (listener pipelines and command
\* invocations together) are started during one behaviour, and how many
\* sweeps where the sweep alone is specified (SpecSweep), and how many
\* subscriptions to the feed on_ready makes (SpecFeed).
MaxTasks == 2
MaxSweeps == 1
MaxSubscriptions == 2

\* The value of ALLOWLIST_ROLE_ID when the environment sets it.
RoleId == 1

\* Discord ids of the people the model talks about.
Ids == {1, 2, 3}

\* discord_id values as the backend stores them (text); "x" is not a number.
Tokens == {"1", "2", "3", "x"}

\* The identities of the specifications of the whole engine (Spec, SpecSeq):
\* two people and the text that is not a number.  SpecSweep has them all.
Few == {"1", "2", "x"}

\* The order in which the backend lists rows.
TokenOrder == <<"1", "x", "2", "3">>

\* What a query of the users table can answer.  The table belongs to the
\* backend: the bot only reads it, and each read is an input of the handler.
\* A row has one of three states (no row: unregistered); a listing of the
\* passed rows is any selection of the tokens, in the backend's order.
Status == {"unregistered", "pending", "passed"}

Listings(T) == {SelectSeq(TokenOrder, LAMBDA s : s \in S) : S \in SUBSET T}

\* execute() either raises or answers with data.
Raised == [ok |-> FALSE, data |-> <<>>]
Answer(data) == [ok |-> TRUE, data |-> data]

\* select('*').eq('discord_id', ...): no row, or the one row of the author.
RowAnswers == {Raised} \cup {Answer(IF st = "unregistered" THEN <<>> ELSE <<st>>) : st \in Status}

\* select('discord_id').eq('status', 'passed')
ListAnswers(T) == {Raised} \cup {Answer(l) : l \in Listings(T)}

IsNumeric(s) == s \in {"1", "2", "3"}

\* int(discord_id); defined for numeric text only (int raises otherwise).
int(s) == CASE s = "1" -> 1 [] s = "2" -> 2 [] s = "3" -> 3

\* The ids among the tokens T.
IdsOf(T) == {int(s) : s \in {u \in T : IsNumeric(u)}}

\* str(ctx.author.id)
str(d) == CASE d = 1 -> "1" [] d = 2 -> "2" [] d = 3 -> "3"

VARIABLES
    ALLOWLIST_ROLE_ID,  \* 0 when unset
    catalog,            \* role ids that exist in the guild
    inGuild,            \* ids that are members of the guild
    roles,              \* members that hold the allowlist role
    tasks,              \* bag of coroutines (running, suspended or ended)
    calls,              \* per id: the results assign_role_to_member returned, in order
    subscriptions,      \* number of on_insert subscriptions, each with its on_handle
    feed                \* <<payload>>: the last insert delivered, where it is
                        \* recorded (SpecFeed); <<>> before

vars == <<ALLOWLIST_ROLE_ID, catalog, inGuild, roles, tasks, calls, subscriptions, feed>>

env == <<ALLOWLIST_ROLE_ID, catalog, inGuild, subscriptions, feed>>

----------------------------------------------------------------------------
\* Results of assign_role_to_member: the tuple (success, reason).

Result(ok, reason) == [ok |-> ok, reason |-> reason]

NoResult == Result(FALSE, "")

\* str(e) of the exception add_roles raised.
ErrText == "403 Forbidden"

\* The outcome vocabulary of the specification, read off a result tuple.
GrantOutcome(res) ==
    CASE res.ok /\ res.reason = "Role assigned" -> "granted_new"
      [] res.ok /\ res.reason = "Already has role" -> "already_granted"
      [] ~res.ok /\ res.reason \in {"Role ID not configured", "Role not found in server"}
            -> "role_misconfigured"
      [] OTHER -> "mutation_failed"

\* A guild member handle, and the plain user handle a command gets in a
\* direct message (it has no guild attribute).
Member(d) == [id |-> d, hasGuild |-> TRUE]
User(d) == [id |-> d, hasGuild |-> FALSE]

\* guild.get_role(ALLOWLIST_ROLE_ID)
get_role(cat, rid) == rid \in cat

\* assign_role_to_member without the test of member.roles.
assign_role_to_member_nocheck(member, rid, cat, rs) ==
    IF rid = 0
    THEN [step |-> "return", res |-> Result(FALSE, "Role ID not configured")]
    ELSE IF ~member.hasGuild
    THEN [step |-> "raise", res |-> NoResult]
    ELSE IF ~get_role(cat, rid)
    THEN [step |-> "return", res |-> Result(FALSE, "Role not found in server")]
    ELSE [step |-> "await", res |-> NoResult]

\* assign_role_to_member up to its first suspension: what it does with the
\* handle before add_roles is awaited.  step is "return" (with the result),
\* "await" (add_roles was called and is in flight) or "raise".
assign_role_to_member(member, rid, cat, rs) ==
    IF rid = 0
    THEN [step |-> "return", res |-> Result(FALSE, "Role ID not configured")]
    ELSE IF ~member.hasGuild
    THEN [step |-> "raise", res |-> NoResult]
    ELSE IF ~get_role(cat, rid)
    THEN [step |-> "return", res |-> Result(FALSE, "Role not found in server")]
    ELSE IF member.id \in rs
    THEN [step |-> "return", res |-> Result(TRUE, "Already has role")]
    ELSE [step |-> "await", res |-> NoResult]

\* add_roles as a toggle: a role already held is taken away.
add_roles_toggle(rs, d) == IF d \in rs THEN rs \ {d} ELSE rs \cup {d}

\* The effect of member.add_roles(role) on the guild when it succeeds.
add_roles(rs, d) == rs \cup {d}

\* What assign_role_to_member returns once add_roles has ended.
assign_role_resume(succeeded) ==
    IF succeeded THEN Result(TRUE, "Role assigned") ELSE Result(FALSE, ErrText)

\* The log of returned results: the result, and whether the member held the
\* role in the guild (role set rs) when assign_role_to_member returned.
Logged(log, d, res, rs) ==
    [log EXCEPT ![d] = Append(@, [ok |-> res.ok, reason |-> res.reason, has |-> d \in rs])]

----------------------------------------------------------------------------
\* Coroutines.  A machine is a coroutine together with the log it has
\* written; the operators below give the machines a coroutine can be in at
\* its next suspension point.

Machine(t, log) == [t |-> t, log |-> log]

TasksOf(kind) == {t \in DOMAIN tasks : t.kind = kind}

\* Number of coroutines that were started.
Started == BagCardinality(tasks)

Ended(t) == t.pc \in {"done", "crashed"}

Replace(old, new) == (tasks (-) SetToBag({old})) (+) SetToBag({new})

\* ---- realtime listener: on_handle and auto_assign_role ----

\* What the feed can deliver: a payload without a record, or with a record
\* that has passed (true or false) and discord_id (a token, or "" for none).
Payloads(T) ==
    {[record |-> FALSE, passed |-> FALSE, discord_id |-> ""]}
    \cup [record : {TRUE}, passed : BOOLEAN, discord_id : T \cup {""}]

\* on_handle: the condition under which a pipeline is scheduled.
Qualifies(payload) ==
    /\ payload.record
    /\ payload.passed
    /\ payload.discord_id # ""

\* dm: member.send was called; sent: how it ended ("" while it has not).
AutoTask(tok) ==
    [kind |-> "auto", tok |-> tok, pc |-> "scheduled", res |-> NoResult,
     out |-> "", dm |-> FALSE, sent |-> ""]

\* on_ready: the listener coroutine is created and subscribes; subscribed
\* tells whether subscribe() returned or raised (the exception is printed).
on_ready(subscribed) ==
    /\ subscriptions < MaxSubscriptions
    /\ subscriptions' = IF subscribed THEN subscriptions + 1 ELSE subscriptions
    /\ UNCHANGED <<ALLOWLIST_ROLE_ID, catalog, inGuild, roles, tasks, calls, feed>>

\* on_handle without the test of discord_id.
on_handle_noidentity(payload) ==
    IF payload.record /\ payload.passed
    THEN SetToBag({AutoTask(payload.discord_id)})
    ELSE EmptyBag

\* on_handle without the test of is_passed.
on_handle_nopassed(payload) ==
    IF payload.record /\ payload.discord_id # ""
    THEN SetToBag({AutoTask(payload.discord_id)})
    ELSE EmptyBag

\* on_handle: the coroutines one call of the callback schedules.
on_handle(payload) ==
    IF Qualifies(payload)
    THEN SetToBag({AutoTask(payload.discord_id)})
    ELSE EmptyBag

RECURSIVE Times(_, _)
\* n times the bag b.
Times(b, n) == IF n = 0 THEN EmptyBag ELSE b (+) Times(b, n - 1)

\* The feed delivers an insert: the callback of every subscription is
\* called with the payload.
Deliver(payload) ==
    LET scheduled == Times(on_handle(payload), subscriptions) IN
    /\ Started + BagCardinality(scheduled) <= MaxTasks
    /\ tasks' = tasks (+) scheduled
    /\ UNCHANGED <<ALLOWLIST_ROLE_ID, catalog, inGuild, subscriptions, roles, calls>>

on_insert(payload) == Deliver(payload) /\ UNCHANGED feed

\* The same, the payload recorded.
on_insert_recorded(payload) == Deliver(payload) /\ feed' = <<payload>>

\* auto_assign_role after assign_role_to_member returned res: the direct
\* message is sent whenever success is true.
AutoAfter(t, log, res, rs) ==
    LET d == int(t.tok) IN
    Machine([t EXCEPT !.res = res,
                      !.out = GrantOutcome(res),
                      !.dm = res.ok,
                      !.pc = IF res.ok THEN "sending" ELSE "done"],
            Logged(log, d, res, rs))

\* fetch_member's exception not caught.
AutoAbsent_uncaught(t) == [t EXCEPT !.pc = "crashed"]

\* The except branch of auto_assign_role: fetch_member raised.
AutoAbsent(t) == [t EXCEPT !.pc = "done", !.out = "member_absent"]

\* auto_assign_role from the call of assign_role_to_member on.
AutoAssign(t, log, rs) ==
    LET r == assign_role_to_member(Member(int(t.tok)), ALLOWLIST_ROLE_ID, catalog, rs) IN
    IF r.step = "await"
    THEN Machine([t EXCEPT !.pc = "adding"], log)
    ELSE AutoAfter(t, log, r.res, rs)

\* auto_assign_role from its start to its first suspension.  guildFound:
\* bot.get_guild(GUILD_ID) finds the guild (GUILD_ID is set and the guild is
\* in the client's cache at that moment).
AutoStart(t, guildFound) ==
    /\ t \in TasksOf("auto")
    /\ t.pc = "scheduled"
    /\ \E m \in
          IF ~guildFound
          THEN {Machine([t EXCEPT !.pc = "done", !.out = "domain_unavailable"], calls)}
          ELSE IF ~IsNumeric(t.tok)
          THEN {Machine([t EXCEPT !.pc = "crashed"], calls)}
          ELSE \* guild.get_member: the cache may or may not hold a member
               {Machine([t EXCEPT !.pc = "fetching"], calls)}
               \cup (IF int(t.tok) \in inGuild THEN {AutoAssign(t, calls, roles)} ELSE {}) :
          /\ tasks' = Replace(t, m.t)
          /\ calls' = m.log
    /\ UNCHANGED <<env, roles>>

\* guild.fetch_member ended: with the member, or with an exception (the
\* identity is not in the guild, or the request failed).
AutoFetched(t, found) ==
    /\ t \in TasksOf("auto")
    /\ t.pc = "fetching"
    /\ found => int(t.tok) \in inGuild
    /\ LET m == IF found
                THEN AutoAssign(t, calls, roles)
                ELSE Machine(AutoAbsent(t), calls)
       IN /\ tasks' = Replace(t, m.t)
          /\ calls' = m.log
    /\ UNCHANGED <<env, roles>>

\* member.add_roles ended inside a listener pipeline.
AutoAdded(t, succeeded) ==
    /\ t \in TasksOf("auto")
    /\ t.pc = "adding"
    /\ roles' = IF succeeded THEN add_roles(roles, int(t.tok)) ELSE roles
    /\ LET m == AutoAfter(t, calls, assign_role_resume(succeeded), roles')
       IN /\ tasks' = Replace(t, m.t)
          /\ calls' = m.log
    /\ UNCHANGED <<env>>

\* member.send raised and the exception escapes auto_assign_role.
AutoSendFailed_uncaught(t) == [t EXCEPT !.pc = "crashed", !.sent = "failed"]

\* member.send raised: except, pass.
AutoSendFailed(t) == [t EXCEPT !.pc = "done", !.sent = "failed"]

\* member.send ended: delivered, or with an exception.
AutoSent(t, delivered) ==
    /\ t \in TasksOf("auto")
    /\ t.pc = "sending"
    /\ tasks' = Replace(t, IF delivered
                           THEN [t EXCEPT !.pc = "done", !.sent = "delivered"]
                           ELSE AutoSendFailed(t))
    /\ UNCHANGED <<env, roles, calls>>

\* ---- the verify command ----

VerifyTask(d, inDM) ==
    [kind |-> "verify", id |-> d, inDM |-> inDM, pc |-> "start", row |-> "",
     res |-> NoResult, reply |-> "", role_status |-> ""]

\* ctx.author: a guild member when the command comes from a guild channel,
\* a plain user when it comes from a direct message.
Author(t) == IF t.inDM THEN User(t.id) ELSE Member(t.id)

\* The Role Status field of the reply.
RoleStatus(res) ==
    IF res.reason = "Role assigned" THEN "Assigned!"
    ELSE IF res.ok THEN "Already assigned"
    ELSE "warning"

\* verify after assign_role_to_member returned res, up to ctx.reply.
VerifyAfter(t, log, res, rs) ==
    Machine([t EXCEPT !.res = res,
                      !.role_status = RoleStatus(res),
                      !.reply = "passed",
                      !.pc = "replying"],
            Logged(log, t.id, res, rs))

\* verify with the test of status dropped: any row leads to the grant.
VerifyRun_anyrow(t, log, rs, res) ==
    IF ~res.ok
    THEN Machine([t EXCEPT !.pc = "crashed"], log)
    ELSE IF res.data = <<>>
    THEN Machine([t EXCEPT !.reply = "unregistered", !.pc = "replying"], log)
    ELSE LET row == Head(res.data)
             r == assign_role_to_member(Author(t), ALLOWLIST_ROLE_ID, catalog, rs) IN
         CASE r.step = "raise" -> Machine([t EXCEPT !.row = row, !.pc = "crashed"], log)
           [] r.step = "await" -> Machine([t EXCEPT !.row = row, !.pc = "adding"], log)
           [] OTHER -> VerifyAfter([t EXCEPT !.row = row], log, r.res, rs)

\* verify from its start to its first suspension.  res: what the query of
\* the author's row answered; row is the status the handler read ("" for
\* none).
VerifyRun(t, log, rs, res) ==
    IF ~res.ok
    THEN Machine([t EXCEPT !.pc = "crashed"], log)
    ELSE IF res.data = <<>>
    THEN Machine([t EXCEPT !.reply = "unregistered", !.pc = "replying"], log)
    ELSE LET row == Head(res.data) IN
    IF row = "passed"
    THEN LET r == assign_role_to_member(Author(t), ALLOWLIST_ROLE_ID, catalog, rs) IN
         CASE r.step = "raise" -> Machine([t EXCEPT !.row = row, !.pc = "crashed"], log)
           [] r.step = "await" -> Machine([t EXCEPT !.row = row, !.pc = "adding"], log)
           [] OTHER -> VerifyAfter([t EXCEPT !.row = row], log, r.res, rs)
    ELSE Machine([t EXCEPT !.row = row, !.reply = "pending", !.pc = "replying"], log)

verify(d, inDM, res) ==
    /\ Started < MaxTasks
    /\ ~inDM => d \in inGuild
    /\ LET m == VerifyRun(VerifyTask(d, inDM), calls, roles, res)
       IN /\ tasks' = tasks (+) SetToBag({m.t})
          /\ calls' = m.log
    /\ UNCHANGED <<env, roles>>

\* member.add_roles ended inside verify.
VerifyAdded(t, succeeded) ==
    /\ t \in TasksOf("verify")
    /\ t.pc = "adding"
    /\ roles' = IF succeeded THEN add_roles(roles, t.id) ELSE roles
    /\ LET m == VerifyAfter(t, calls, assign_role_resume(succeeded), roles')
       IN /\ tasks' = Replace(t, m.t)
          /\ calls' = m.log
    /\ UNCHANGED <<env>>

\* ctx.reply ended.
VerifyReplied(t) ==
    /\ t \in TasksOf("verify")
    /\ t.pc = "replying"
    /\ tasks' = Replace(t, [t EXCEPT !.pc = "done"])
    /\ UNCHANGED <<env, roles, calls>>

\* ---- the sync command ----

SyncTask ==
    [kind |-> "sync", pc |-> "sending", rest |-> <<>>, n |-> 0,
     assigned |-> 0, already_had |-> 0, failed |-> 0, not_in_server |-> 0,
     seen |-> <<>>]

\* What happened to one row of the listing: whether the identity resolved
\* to a member and, if so, what assign_role_to_member returned.
Seen(tok, resolved, res) == [tok |-> tok, resolved |-> resolved, res |-> res]

\* The except branch of the loop: fetch_member raised.
SyncAbsent(t) ==
    [t EXCEPT !.not_in_server = @ + 1,
              !.seen = Append(@, Seen(Head(t.rest), FALSE, NoResult)),
              !.rest = Tail(@)]

\* The loop without its last else branch: a failure counts nowhere.
SyncCount_nofailed(t, res) ==
    LET u == IF res.ok
             THEN IF res.reason = "Already has role"
                  THEN [t EXCEPT !.already_had = @ + 1]
                  ELSE [t EXCEPT !.assigned = @ + 1]
             ELSE t
    IN [u EXCEPT !.seen = Append(@, Seen(Head(t.rest), TRUE, res)),
                 !.rest = Tail(@)]

\* The loop with the test of reason inverted.
SyncCount_swapped(t, res) ==
    LET u == IF res.ok
             THEN IF res.reason # "Already has role"
                  THEN [t EXCEPT !.already_had = @ + 1]
                  ELSE [t EXCEPT !.assigned = @ + 1]
             ELSE [t EXCEPT !.failed = @ + 1]
    IN [u EXCEPT !.seen = Append(@, Seen(Head(t.rest), TRUE, res)),
                 !.rest = Tail(@)]

\* The counter a result increments.
SyncCount(t, res) ==
    LET u == IF res.ok
             THEN IF res.reason = "Already has role"
                  THEN [t EXCEPT !.already_had = @ + 1]
                  ELSE [t EXCEPT !.assigned = @ + 1]
             ELSE [t EXCEPT !.failed = @ + 1]
    IN [u EXCEPT !.seen = Append(@, Seen(Head(t.rest), TRUE, res)),
                 !.rest = Tail(@)]

RECURSIVE SyncLoop(_, _, _), SyncAssign(_, _, _)

\* The for loop from the head of rest to the next suspension: the machines
\* it can be suspended in (get_member may hit or miss the cache).
SyncLoop(t, log, rs) ==
    IF t.rest = <<>>
    THEN {Machine([t EXCEPT !.pc = "editing"], log)}
    ELSE IF ~IsNumeric(Head(t.rest))
    THEN {Machine([t EXCEPT !.pc = "crashed"], log)}
    ELSE {Machine([t EXCEPT !.pc = "fetching"], log)}
         \cup (IF int(Head(t.rest)) \in inGuild THEN SyncAssign(t, log, rs) ELSE {})

\* The loop from the call of assign_role_to_member for the head of rest.
SyncAssign(t, log, rs) ==
    LET d == int(Head(t.rest))
        r == assign_role_to_member(Member(d), ALLOWLIST_ROLE_ID, catalog, rs)
    IN IF r.step = "await"
       THEN {Machine([t EXCEPT !.pc = "adding"], log)}
       ELSE SyncLoop(SyncCount(t, r.res), Logged(log, d, r.res, rs), rs)

\* The command is invoked: ctx.send is awaited.
sync ==
    /\ Started < MaxTasks
    /\ tasks' = tasks (+) SetToBag({SyncTask})
    /\ UNCHANGED <<env, roles, calls>>

\* ctx.send ended; the backend is queried (res: what it answered) and the
\* loop over passed_users = res.data starts.
SyncQueried(t, res) ==
    /\ t \in TasksOf("sync")
    /\ t.pc = "sending"
    /\ \E m \in IF res.ok
                THEN SyncLoop([t EXCEPT !.rest = res.data, !.n = Len(res.data)],
                              calls, roles)
                ELSE {Machine([t EXCEPT !.pc = "crashed"], calls)} :
          /\ tasks' = Replace(t, m.t)
          /\ calls' = m.log
    /\ UNCHANGED <<env, roles>>

\* ctx.guild.fetch_member ended: with the member, or with an exception.
SyncFetched(t, found) ==
    /\ t \in TasksOf("sync")
    /\ t.pc = "fetching"
    /\ found => int(Head(t.rest)) \in inGuild
    /\ \E m \in IF found
                THEN SyncAssign(t, calls, roles)
                ELSE SyncLoop(SyncAbsent(t), calls, roles) :
          /\ tasks' = Replace(t, m.t)
          /\ calls' = m.log
    /\ UNCHANGED <<env, roles>>

\* member.add_roles ended inside the loop.
SyncAdded(t, succeeded) ==
    /\ t \in TasksOf("sync")
    /\ t.pc = "adding"
    /\ LET d == int(Head(t.rest))
           res == assign_role_resume(succeeded)
           rs == IF succeeded THEN add_roles(roles, d) ELSE roles
       IN /\ roles' = rs
          /\ \E m \in SyncLoop(SyncCount(t, res), Logged(calls, d, res, rs), rs) :
                /\ tasks' = Replace(t, m.t)
                /\ calls' = m.log
    /\ UNCHANGED <<env>>

\* status_msg.edit ended: the report is out.
SyncEdited(t) ==
    /\ t \in TasksOf("sync")
    /\ t.pc = "editing"
    /\ tasks' = Replace(t, [t EXCEPT !.pc = "done"])
    /\ UNCHANGED <<env, roles, calls>>

----------------------------------------------------------------------------
\* The state at start: the configuration and the guild as the bot finds
\* them, over the identities of T; no coroutine yet.
InitOver(T) ==
    /\ ALLOWLIST_ROLE_ID \in {0, RoleId}
    /\ catalog \in {{}, {RoleId}}
    /\ inGuild \in SUBSET IdsOf(T)
    /\ roles \in SUBSET inGuild
    /\ catalog = {} => roles = {}
    /\ tasks = EmptyBag
    /\ calls = [d \in Ids |-> <<>>]
    /\ feed = <<>>

\* The engine in service: on_ready has run once and subscribed.
Init == InitOver(Few) /\ subscriptions = 1

Next ==
    \/ \E p \in Payloads(Few) : on_insert(p)
    \/ \E t \in DOMAIN tasks, guildFound \in BOOLEAN : AutoStart(t, guildFound)
    \/ \E t \in DOMAIN tasks, found \in BOOLEAN : AutoFetched(t, found)
    \/ \E t \in DOMAIN tasks, succeeded \in BOOLEAN : AutoAdded(t, succeeded)
    \/ \E t \in DOMAIN tasks, delivered \in BOOLEAN : AutoSent(t, delivered)
    \/ \E d \in IdsOf(Few), inDM \in BOOLEAN, res \in RowAnswers : verify(d, inDM, res)
    \/ \E t \in DOMAIN tasks, succeeded \in BOOLEAN : VerifyAdded(t, succeeded)
    \/ \E t \in DOMAIN tasks : VerifyReplied(t)
    \/ sync
    \/ \E t \in DOMAIN tasks, res \in ListAnswers(Few) : SyncQueried(t, res)
    \/ \E t \in DOMAIN tasks, found \in BOOLEAN : SyncFetched(t, found)
    \/ \E t \in DOMAIN tasks, succeeded \in BOOLEAN : SyncAdded(t, succeeded)
    \/ \E t \in DOMAIN tasks : SyncEdited(t)

\* The engine: the three entry points on one event loop.
Spec == Init /\ [][Next]_vars

\* The same program when every coroutine ends before the next one is
\* started: calls in sequence, nothing else running in between.
Idle == \A t \in DOMAIN tasks : Ended(t)

NextSeq ==
    \/ Idle /\ \E p \in Payloads(Few) : on_insert(p)
    \/ \E t \in DOMAIN tasks, guildFound \in BOOLEAN : AutoStart(t, guildFound)
    \/ \E t \in DOMAIN tasks, found \in BOOLEAN : AutoFetched(t, found)
    \/ \E t \in DOMAIN tasks, succeeded \in BOOLEAN : AutoAdded(t, succeeded)
    \/ \E t \in DOMAIN tasks, delivered \in BOOLEAN : AutoSent(t, delivered)
    \/ Idle /\ \E d \in IdsOf(Few), inDM \in BOOLEAN, res \in RowAnswers : verify(d, inDM, res)
    \/ \E t \in DOMAIN tasks, succeeded \in BOOLEAN : VerifyAdded(t, succeeded)
    \/ \E t \in DOMAIN tasks : VerifyReplied(t)
    \/ Idle /\ sync
    \/ \E t \in DOMAIN tasks, res \in ListAnswers(Few) : SyncQueried(t, res)
    \/ \E t \in DOMAIN tasks, found \in BOOLEAN : SyncFetched(t, found)
    \/ \E t \in DOMAIN tasks, succeeded \in BOOLEAN : SyncAdded(t, succeeded)
    \/ \E t \in DOMAIN tasks : SyncEdited(t)

SpecSeq == Init /\ [][NextSeq]_vars

\* The sync command alone, over all the identities: sweeps of listings of
\* up to three people.
InitSweep == InitOver(Tokens) /\ subscriptions = 1

NextSweep ==
    \/ Started < MaxSweeps /\ sync
    \/ \E t \in DOMAIN tasks, res \in ListAnswers(Tokens) : SyncQueried(t, res)
    \/ \E t \in DOMAIN tasks, found \in BOOLEAN : SyncFetched(t, found)
    \/ \E t \in DOMAIN tasks, succeeded \in BOOLEAN : SyncAdded(t, succeeded)
    \/ \E t \in DOMAIN tasks : SyncEdited(t)

SpecSweep == InitSweep /\ [][NextSweep]_vars

\* The listener alone, from the start of the process: on_ready, the feed
\* and the pipelines; the inserts delivered are recorded.
InitFeed == InitOver(Few) /\ subscriptions = 0

NextFeed ==
    \/ \E subscribed \in BOOLEAN : on_ready(subscribed)
    \/ \E p \in Payloads(Few) : on_insert_recorded(p)
    \/ \E t \in DOMAIN tasks, guildFound \in BOOLEAN : AutoStart(t, guildFound)
    \/ \E t \in DOMAIN tasks, found \in BOOLEAN : AutoFetched(t, found)
    \/ \E t \in DOMAIN tasks, succeeded \in BOOLEAN : AutoAdded(t, succeeded)
    \/ \E t \in DOMAIN tasks, delivered \in BOOLEAN : AutoSent(t, delivered)

SpecFeed == InitFeed /\ [][NextFeed]_vars

----------------------------------------------------------------------------
\* Properties.

\* Number of coroutines (with multiplicity) among those of the set S.
CountIn(S) == BagCardinality([t \in S |-> tasks[t]])

\* Number of results "Role assigned" in a log: grants that took effect.
Granted(log) ==
    Cardinality({i \in 1..Len(log) : log[i].ok /\ log[i].reason = "Role assigned"})

Misconfigured == ALLOWLIST_ROLE_ID = 0 \/ ~get_role(catalog, ALLOWLIST_ROLE_ID)

InGuildTok(tok) == IsNumeric(tok) /\ int(tok) \in inGuild

\* C1: calls of assign_role_to_member for one member in sequence, nothing
\* else running in between: once a call succeeded ("Role assigned" or
\* "Already has role"), every later call returns "Already has role" and finds
\* the member holding the role, as the earlier one left it; at most one call
\* in total returns "Role assigned", that is at most one grant is made.
C1_Idempotent ==
    \A d \in Ids :
        /\ Granted(calls[d]) <= 1
        /\ \A i, j \in 1..Len(calls[d]) :
              (i < j /\ calls[d][i].ok) =>
                  /\ calls[d][j].ok
                  /\ calls[d][j].reason = "Already has role"
                  /\ calls[d][j].has = calls[d][i].has
        /\ \A i \in 1..Len(calls[d]) : calls[d][i].ok => calls[d][i].has

\* Two calls in sequence: "Role assigned", then "Already has role".
C1_Witness ==
    \E d \in Ids :
        /\ Len(calls[d]) = 2
        /\ calls[d][1].reason = "Role assigned"
        /\ calls[d][2].reason = "Already has role"

\* C2: when the feed delivered the same passed event twice for a member
\* who lacked the role, and both pipelines ended with a success, one of
\* them ended granted_new and the other already_granted, and at most one
\* direct message was sent.
C2_ReplaySafe ==
    \A tok \in Tokens :
        LET P == {t \in TasksOf("auto") : t.tok = tok}
            New == {t \in P : GrantOutcome(t.res) = "granted_new"}
            Already == {t \in P : GrantOutcome(t.res) = "already_granted"}
            Notified == {t \in P : t.dm}
        IN (/\ CountIn(P) = 2
            /\ \A t \in P : t.pc = "done" /\ t.res.ok
            /\ New # {})
           => /\ CountIn(New) = 1
              /\ CountIn(Already) = 1
              /\ CountIn(Notified) <= 1

\* C3: whatever entry points converge on a member at the same time, at
\* most one grant is made for the member: "Role assigned" is returned at
\* most once.
C3_AtMostOneGrant == \A d \in Ids : Granted(calls[d]) <= 1

\* C4: no step of the engine takes the role from a member who holds it.
C4_NoDemotion == [][roles \subseteq roles']_vars

\* A member holds the role and an operation on the member failed after the
\* grant.
C4_Witness ==
    \E d \in roles : \E i, j \in 1..Len(calls[d]) :
        i < j /\ calls[d][i].ok /\ ~calls[d][j].ok

\* C5: in a sweep every row handled so far incremented exactly one of the
\* four counters; a sweep that reached the report has the counters sum to
\* the number of rows listed.
C5_SweepComplete ==
    \A t \in TasksOf("sync") :
        LET sum == t.assigned + t.already_had + t.failed + t.not_in_server IN
        /\ sum = Len(t.seen)
        /\ Len(t.seen) + Len(t.rest) = t.n
        /\ t.pc \in {"editing", "done"} => sum = t.n

\* A sweep over two rows reported, a failure and an absence.
C5_Witness ==
    \E t \in TasksOf("sync") :
        t.pc = "done" /\ t.n = 2 /\ t.failed = 1 /\ t.not_in_server = 1

\* The class of a row in the report, by the outcome vocabulary.
RefClass(e) ==
    IF ~e.resolved THEN "not_in_domain"
    ELSE CASE GrantOutcome(e.res) = "granted_new" -> "newly_assigned"
           [] GrantOutcome(e.res) = "already_granted" -> "already_had"
           [] OTHER -> "failed"

RefCount(seen, class) ==
    Cardinality({i \in 1..Len(seen) : RefClass(seen[i]) = class})

\* newly_assigned, already_had, failed, not_in_domain of a sweep
Report(t) == <<t.assigned, t.already_had, t.failed, t.not_in_server>>

\* C6: the counters of a sweep are the count of the rows by class: a row
\* whose identity did not resolve to a member is not_in_domain, a member
\* who had the role is already_had, a member granted the role is
\* newly_assigned, any failure is failed.
C6_Classified ==
    \A t \in TasksOf("sync") :
        Report(t) = <<RefCount(t.seen, "newly_assigned"), RefCount(t.seen, "already_had"),
                      RefCount(t.seen, "failed"), RefCount(t.seen, "not_in_domain")>>

\* The sweep over {A: member without the role, B: not in the guild, C: has
\* the role} reported 1, 1, 0, 1.
C6_Witness ==
    \E t \in TasksOf("sync") :
        /\ t.pc = "done"
        /\ t.n = 3
        /\ Report(t) = <<1, 1, 0, 1>>
        /\ \E i, j, k \in 1..3 :
              /\ t.seen[i].resolved /\ t.seen[i].res.reason = "Role assigned"
              /\ ~t.seen[j].resolved /\ ~InGuildTok(t.seen[j].tok)
              /\ t.seen[k].resolved /\ t.seen[k].res.reason = "Already has role"

\* C7: with the role misconfigured every call of assign_role_to_member
\* returns a role_misconfigured result and add_roles is never called.
C7_MisconfigGuard ==
    Misconfigured =>
        /\ \A t \in DOMAIN tasks : t.pc # "adding"
        /\ \A d \in Ids : \A i \in 1..Len(calls[d]) :
              GrantOutcome(calls[d][i]) = "role_misconfigured"
        /\ \A t \in TasksOf("verify") : ~(t.pc = "crashed" /\ t.row = "passed")

\* The part of C7 that the code keeps: no add_roles call, no change of roles.
C7_NoMutation ==
    [][Misconfigured => (roles' = roles /\ \A t \in DOMAIN tasks' : t.pc # "adding")]_vars

\* C8: an identity that is not in the guild never reaches
\* assign_role_to_member through the listener or the sweep: its pipeline
\* ends member_absent (or before, when the guild is not found), without a
\* result, a direct message or an exception; the sweep counts its row in
\* not_in_server and stops at that row for no other reason.
C8_Absence ==
    /\ \A t \in TasksOf("auto") :
          (IsNumeric(t.tok) /\ ~InGuildTok(t.tok)) =>
              /\ t.pc \in {"scheduled", "fetching", "done"}
              /\ t.pc = "done" => t.out \in {"member_absent", "domain_unavailable"}
              /\ t.res = NoResult
              /\ ~t.dm
    /\ \A t \in TasksOf("sync") :
          /\ \A i \in 1..Len(t.seen) :
                ~InGuildTok(t.seen[i].tok) => ~t.seen[i].resolved
          /\ t.not_in_server >=
                Cardinality({i \in 1..Len(t.seen) : ~InGuildTok(t.seen[i].tok)})
          /\ (t.rest # <<>> /\ IsNumeric(Head(t.rest)) /\ ~InGuildTok(Head(t.rest)))
                => t.pc = "fetching"

\* A pipeline ended member_absent, and a sweep went on to its report after
\* a row whose identity is not in the guild.
C8_Witness ==
    /\ \E t \in TasksOf("auto") :
          ~InGuildTok(t.tok) /\ t.pc = "done" /\ t.out = "member_absent"
    /\ \E t \in TasksOf("sync") :
          /\ t.pc = "done"
          /\ \E i, j \in 1..Len(t.seen) :
                i < j /\ ~InGuildTok(t.seen[i].tok) /\ t.seen[j].resolved

\* C9: verify for an author with no row or with a row that is not passed
\* replies unregistered or pending, does not call assign_role_to_member, and
\* its steps leave roles and the log of calls as they were.
C9_NoGrantState ==
    \A t \in TasksOf("verify") :
        (t.row # "passed" /\ t.pc # "crashed") =>
            /\ t.pc \in {"replying", "done"}
            /\ t.reply = (IF t.row = "" THEN "unregistered" ELSE "pending")
            /\ t.res = NoResult
            /\ t.role_status = ""

C9_NoGrantStep ==
    \A t \in DOMAIN tasks' :
        (/\ t.kind = "verify"
         /\ t.reply \in {"unregistered", "pending"}
         /\ CopiesIn(t, tasks') > CopiesIn(t, tasks))
        => roles' = roles /\ calls' = calls

C9_VerifyNotPassed == [](C9_NoGrantState) /\ [][C9_NoGrantStep]_vars

\* verify replied pending and unregistered.
C9_Witness ==
    /\ \E t \in TasksOf("verify") : t.pc = "done" /\ t.reply = "pending"
    /\ \E t \in TasksOf("verify") : t.pc = "done" /\ t.reply = "unregistered"

\* C10: a listener pipeline sends the direct message only when
\* assign_role_to_member returned granted_new.
C10_NotifyOnlyNew ==
    \A t \in TasksOf("auto") : t.dm => GrantOutcome(t.res) = "granted_new"

\* The commands that were invoked.
Commands == TasksOf("verify") \cup TasksOf("sync")

\* C11: no invocation of verify or sync ends without its reply: a command
\* that ended did so after ctx.reply (verify) or after the report was put
\* in the status message (sync), whatever failed inside.
C11_AlwaysReplies == \A t \in Commands : Ended(t) => t.pc = "done"

\* C12: no failure at one row aborts the loop of a sweep: a sweep never ends
\* with rows of the listing left.
C12_SweepTerminates ==
    \A t \in TasksOf("sync") : Ended(t) => (t.rest = <<>> /\ Len(t.seen) = t.n)

\* The rows of a sweep that are members of the guild.
MemberRows(t) == {i \in 1..Len(t.seen) : InGuildTok(t.seen[i].tok)}

\* The tokens a sweep was given.
Listed(t) == {t.seen[i].tok : i \in 1..Len(t.seen)}

\* C13: a sweep that reported failed = 0 leaves every listed member of the
\* guild with the role; of two sweeps over the same listing run one after
\* the other, both reporting failed = 0, the second assigns nothing.
C13_SweepHeals ==
    \A t \in TasksOf("sync") :
        (t.pc = "done" /\ t.failed = 0) =>
            /\ \A i \in MemberRows(t) : int(t.seen[i].tok) \in roles
            /\ \A u \in TasksOf("sync") :
                  (/\ u.pc = "done" /\ u.failed = 0
                   /\ Listed(u) = Listed(t)
                   /\ (u # t \/ CopiesIn(t, tasks) = 2))
                  => (t.assigned = 0 \/ u.assigned = 0)

\* No call of assign_role_to_member for d returned mutation_failed.
NoMutationFailed(d) ==
    \A i \in 1..Len(calls[d]) : GrantOutcome(calls[d][i]) # "mutation_failed"

\* C14: once every coroutine has ended, a member of the guild for whom a
\* listener pipeline ran holds the role, provided the role is configured and
\* no add_roles for the member failed.
C14_Converges ==
    \A t \in TasksOf("auto") :
        (/\ Idle
         /\ InGuildTok(t.tok)
         /\ ~Misconfigured
         /\ NoMutationFailed(int(t.tok)))
        => int(t.tok) \in roles

\* What the code keeps of C14: the same for the pipelines that found the
\* guild and resolved the member.
C14_ConvergesResolved ==
    \A t \in TasksOf("auto") :
        (/\ Idle
         /\ InGuildTok(t.tok)
         /\ ~Misconfigured
         /\ NoMutationFailed(int(t.tok))
         /\ t.out \notin {"domain_unavailable", "member_absent"})
        => int(t.tok) \in roles

\* C15: the rows a sweep counted in not_in_server are rows of identities
\* that are not in the guild.
C15_AbsentOnly ==
    \A t \in TasksOf("sync") :
        \A i \in 1..Len(t.seen) : ~t.seen[i].resolved => ~InGuildTok(t.seen[i].tok)

\* A call that returned a success left the member holding the role.
C16_Returned ==
    \A d \in Ids : \A i \in 1..Len(calls[d]) : calls[d][i].ok => calls[d][i].has

\* No call of assign_role_to_member ended in an exception, without a result.
C16_NoRaise ==
    \A t \in TasksOf("verify") : ~(t.pc = "crashed" /\ t.row = "passed")

\* The step in which a call returns: with a success the member holds the
\* role, with a failure the member's role is as it was.
C16_Step ==
    \A d \in Ids : \A i \in (Len(calls[d]) + 1)..Len(calls'[d]) :
        LET e == calls'[d][i] IN
        /\ e.ok => (d \in roles' /\ e.has)
        /\ ~e.ok => ((d \in roles') = (d \in roles) /\ e.has = (d \in roles))

\* C16: every call of assign_role_to_member ends in one result, and the
\* result matches the role: after "Role assigned" or "Already has role" the
\* member holds the role, after a failure the member's role is unchanged.
C16_OutcomeMatches == [](C16_Returned /\ C16_NoRaise) /\ [][C16_Step]_vars

\* What the code keeps of C16: the calls that return.
C16_RoleStateMatches == [](C16_Returned) /\ [][C16_Step]_vars

\* An event the listener has nothing to do with: no record, no identity, or
\* passed false or absent.
Irrelevant(payload) == ~payload.record \/ ~payload.passed \/ payload.discord_id = ""

\* C17: the delivery of an irrelevant event schedules no pipeline and leaves
\* the roles, the coroutines and the log of calls as they were.
C17_Dropped ==
    [][(feed' # feed /\ Irrelevant(feed'[1]))
          => (tasks' = tasks /\ roles' = roles /\ calls' = calls)]_vars

\* Pipelines exist, and the last event delivered (to the callbacks that
\* scheduled them) was an irrelevant one.
C17_Witness == tasks # EmptyBag /\ feed # <<>> /\ Irrelevant(feed[1])

\* A pipeline whose direct message failed has completed, after a successful
\* result, and the member holds the role.
C18_Absorbed ==
    \A t \in TasksOf("auto") :
        t.sent = "failed" => (t.pc = "done" /\ t.res.ok /\ int(t.tok) \in roles)

\* The step in which the direct message fails changes neither the roles nor
\* any other coroutine.
C18_Step ==
    \A t \in DOMAIN tasks' :
        (/\ t.kind = "auto"
         /\ t.sent = "failed"
         /\ CopiesIn(t, tasks') > CopiesIn(t, tasks))
        => (roles' = roles /\ calls' = calls
            /\ BagCardinality(tasks') = BagCardinality(tasks)
            /\ \A u \in DOMAIN tasks : u.pc # "sending" => CopiesIn(u, tasks') >= CopiesIn(u, tasks))

\* C18: a failure of member.send in a listener pipeline is absorbed: the
\* pipeline completes, the member keeps the role granted, nothing else is
\* touched.
C18_NotifyAbsorbed == [](C18_Absorbed) /\ [][C18_Step]_vars

\* A pipeline granted the role, its message failed, and a later pipeline
\* for the same member ran to its end.
C18_Witness ==
    \E t, u \in TasksOf("auto") :
        /\ t.sent = "failed" /\ t.pc = "done" /\ t.res.reason = "Role assigned"
        /\ u.tok = t.tok /\ u.pc = "done" /\ u.res.reason = "Already has role"

\* A coroutine at add_roles for d whose trigger was a passed identity: a
\* pipeline scheduled for d, verify after reading d's row as passed, a sweep
\* at d's row of the listing of passed users.
GrantingFor(t, d) ==
    /\ t.pc = "adding"
    /\ CASE t.kind = "auto" -> t.tok = str(d)
         [] t.kind = "verify" -> t.id = d /\ t.row = "passed"
         [] t.kind = "sync" -> Head(t.rest) = str(d)

\* verify reached assign_role_to_member only after reading the row as passed.
C19_State ==
    \A t \in TasksOf("verify") : (t.pc = "adding" \/ t.res # NoResult) => t.row = "passed"

C19_Step ==
    /\ Started' > Started =>
          \A p \in Payloads(Few) :
              on_insert(p) => (p.record /\ p.passed /\ p.discord_id # "")
    /\ \A d \in roles' \ roles : \E t \in DOMAIN tasks : GrantingFor(t, d)

\* C19: add_roles is called for an identity only by verify after it read
\* the identity's row as passed, by a sweep for a row of the listing of passed
\* users, or by a pipeline, and a pipeline is scheduled only for an event with
\* passed true; a role is never given otherwise.
C19_PassedOnly == [](C19_State) /\ [][C19_Step]_vars

\* verify granted the role to a passed author, and a pipeline granted it.
C19_Witness ==
    /\ \E t \in TasksOf("verify") : t.row = "passed" /\ t.res.reason = "Role assigned"
    /\ \E t \in TasksOf("auto") : t.res.reason = "Role assigned"

\* C20: there is at most one subscription to the feed however often
\* on_ready runs, and the delivery of an event schedules at most one
\* pipeline.
C20_OneSubscription == [](subscriptions <= 1) /\ [][Started' <= Started + 1]_vars

====
